---- MODULE Spec2Model ----
(***************************************************************************)
(* Model of the merge-conflict action (src/src/main.ts): run(), the        *)
(* paginating file fetcher getPRFiles() and the detector                   *)
(* findConflictingFiles().  run() is one thread of control; it is cut at   *)
(* its awaits, so every action is the code that runs between two awaits    *)
(* (or between two loop points), and the upstream API (listFiles, list,    *)
(* createComment) is the environment that resolves or rejects each await.  *)
(***************************************************************************)
EXTENDS Integers, Sequences, FiniteSets, TLC

VARIABLES
    pc,                     \* position of run(): start, listFiles, list, loop, detect, record, push, createComment, done
    token,                  \* input github_token ("" when not supplied)
    includeDrafts,          \* input include-drafts
    postComments,           \* input post-comments
    pull_request,           \* github.context.payload.pull_request: <<>> when absent, else <<[number |-> n]>>
    currentPRChangedFiles,  \* run(): files of the current PR
    prs,                    \* run(): the open-PR listing
    i,                      \* run(): index into prs of the candidate of the for loop (0 before the loop)
    files,                  \* getPRFiles(): accumulated files
    page,                   \* getPRFiles(): page being requested (0 when no call is active)
    otherPRChangedFiles,    \* run(): files of the candidate
    conflictingFiles,       \* run(): result of findConflictingFiles for the candidate
    conflictWarnings,       \* run(): the ConflictWarning records collected
    outputs,                \* core.setOutput: per output the values set, <<>> when never set
    failed,                 \* core.setFailed: the messages it was called with
    warnings,               \* core.warning: the messages it was called with
    summaryWritten,         \* core.summary.addRaw(summary).write() was called
    requests,               \* upstream requests issued, in order
    received,               \* pages the active getPRFiles call has received, in order
    thrown,                 \* rejections: the value thrown and the index in requests of the request it answers
    fullPagesServed,        \* number of full pages the upstream has served in this run
    upstream,               \* two-run comparison: files of each PR as the upstream reports them
    twin                    \* two-run comparison: conflictWarnings with include-drafts false and true

vars ==
    <<pc, token, includeDrafts, postComments, pull_request, currentPRChangedFiles, prs, i,
      files, page, otherPRChangedFiles, conflictingFiles, conflictWarnings, outputs, failed,
      warnings, summaryWritten, requests, received, thrown, fullPagesServed, upstream, twin>>

(***************************************************************************)
(* Bounds and program constants                                            *)
(***************************************************************************)
perPage == 100

MaxListed == 2

MaxFullPages == 1

DetMaxLen == 2

(***************************************************************************)
(* Data                                                                    *)
(***************************************************************************)
FileNames == {"a.ts", "b.ts"}

Statuses == {"added", "removed", "modified", "renamed", "copied", "changed", "unchanged"}

FileChange == [filename : FileNames, status : Statuses]

File(name, status) == [filename |-> name, status |-> status]

\* Text is modelled as a sequence of words, so that includes() and template
\* strings are what they are in the code: search and concatenation.
Includes(text, needle) ==
    \E k \in 0..(Len(text) - Len(needle)) :
        \A j \in 1..Len(needle) : text[k + j] = needle[j]

TriggerMessage == <<"This", "action", "must", "be", "triggered", "by", "a", "pull_request", "event">>

InputRequiredMessage == <<"Input", "required", "and", "not", "supplied:", "github_token">>

NotAccessible == <<"Resource", "not", "accessible", "by", "integration">>

PermissionWarning ==
    <<"Insufficient", "permissions", "to", "post", "comment.", "Add",
      "\"pull-requests:", "write\"", "permission.">>

RequiredPermission == <<"\"pull-requests:", "write\"">>

\* What an await can reject with: an Error carrying a message, or a value
\* that is not an instance of Error.
Error(message) == [isError |-> TRUE, message |-> message]

NonError == [isError |-> FALSE, message |-> <<"boom">>]

ErrorMessages ==
    { <<"API", "rate", "limit", "exceeded">>,
      NotAccessible,
      <<"HttpError:">> \o NotAccessible \o <<"-", "https://docs.github.com/rest">> }

Throwables == {Error(m) : m \in ErrorMessages} \cup {NonError}

(***************************************************************************)
(* getPRFiles (main.ts 111-139)                                            *)
(***************************************************************************)
\* files.push(...data.map(file => ({filename, status})))
PushFiles(acc, data) ==
    acc \o [k \in DOMAIN data |-> File(data[k].filename, data[k].status)]

\* faulty variant: a full page is taken for the last one
PageIsLastOffByOne(data) == Len(data) <= perPage

\* if (data.length < perPage) break
PageIsLast(data) == Len(data) < perPage

\* page++
NextPage(p) == p + 1

ListFilesRequest(prNumber, p) ==
    [op |-> "listFiles", pull_number |-> prNumber, per_page |-> perPage, page |-> p]

(***************************************************************************)
(* findConflictingFiles (main.ts 141-151)                                  *)
(***************************************************************************)
\* faulty variant: removed files are forgotten
IsModifiedOnly(f) == f.status = "modified"

\* f.status === 'modified' || f.status === 'removed'
IsModifiedOrRemoved(f) == f.status = "modified" \/ f.status = "removed"

findConflictingFiles(currentPRFiles, otherPRFiles) ==
    LET currentModifiedFiles ==
            {currentPRFiles[k].filename :
                k \in {j \in DOMAIN currentPRFiles : IsModifiedOrRemoved(currentPRFiles[j])}}
        Kept(f) == IsModifiedOrRemoved(f) /\ f.filename \in currentModifiedFiles
        otherModifiedFiles == SelectSeq(otherPRFiles, Kept)
    IN  [k \in DOMAIN otherModifiedFiles |-> otherModifiedFiles[k].filename]

(***************************************************************************)
(* run (main.ts 22-109): the pieces its steps are made of                  *)
(***************************************************************************)
\* faulty variant: drafts are never skipped
CandidateSkippedSelfOnly(pr, currentPR, drafts) == pr.number = currentPR.number

\* faulty variant: the include-drafts flag is read the wrong way round
CandidateSkippedInverted(pr, currentPR, drafts) ==
    \/ pr.number = currentPR.number
    \/ pr.draft /\ drafts

\* the two `continue`s of the for loop: the current PR itself, and drafts
\* unless include-drafts
CandidateSkipped(pr, currentPR, drafts) ==
    \/ pr.number = currentPR.number
    \/ pr.draft /\ ~drafts

\* `PR #${pr.number} may have conflicts: ${conflictingFiles.length} overlapping files`
ConflictWarningText(pr, conflicting) ==
    <<"PR", "#" \o ToString(pr.number), "may", "have", "conflicts:",
      ToString(Len(conflicting)), "overlapping", "files">>

\* conflictWarnings.push({prNumber, prTitle, conflictingFiles})
PushWarning(acc, pr, conflicting) ==
    Append(acc, [prNumber |-> pr.number, prTitle |-> pr.title, conflictingFiles |-> conflicting])

\* faulty variant: the record is pushed whatever the detector returned
RecordConflictUnconditional(acc, pr, conflicting) == PushWarning(acc, pr, conflicting)

\* if (conflictingFiles.length > 0) { core.warning(...); conflictWarnings.push(...) }
RecordConflict(acc, pr, conflicting) ==
    IF Len(conflicting) > 0 THEN PushWarning(acc, pr, conflicting) ELSE acc

WarnConflict(log, pr, conflicting) ==
    IF Len(conflicting) > 0 THEN Append(log, ConflictWarningText(pr, conflicting)) ELSE log

\* JSON.stringify(conflictWarnings), as the sequence of its tokens
RECURSIVE Joined(_, _)
Joined(parts, sep) ==
    IF Len(parts) = 0 THEN <<>>
    ELSE IF Len(parts) = 1 THEN parts[1]
    ELSE parts[1] \o <<sep>> \o Joined(Tail(parts), sep)

Quoted(s) == "\"" \o s \o "\""

JSONStringify(records) ==
    LET Names(fs) ==
            <<"[">>
            \o [k \in 1..(IF Len(fs) = 0 THEN 0 ELSE 2 * Len(fs) - 1) |->
                    IF k % 2 = 1 THEN Quoted(fs[(k + 1) \div 2]) ELSE ","]
            \o <<"]">>
        Object(w) ==
            <<"{", "\"prNumber\":", ToString(w.prNumber), ",",
              "\"prTitle\":", Quoted(w.prTitle), ",",
              "\"conflictingFiles\":">> \o Names(w.conflictingFiles) \o <<"}">>
    IN  <<"[">> \o Joined([k \in DOMAIN records |-> Object(records[k])], ",") \o <<"]">>

NoOutputs == [hasConflicts |-> <<>>, conflictCount |-> <<>>, conflicts |-> <<>>]

\* core.setOutput(name, value)
SetOutput(out, name, value) == [out EXCEPT ![name] = Append(@, value)]

\* faulty variant: the conflicts output is written on both branches
ReportOutputsAlways(out, records) ==
    SetOutput(SetOutput(SetOutput(out, "hasConflicts", IF Len(records) > 0 THEN "true" ELSE "false"),
                        "conflictCount", Len(records)),
              "conflicts", JSONStringify(records))

\* the outputs of lines 78-81 and 102-103
ReportOutputs(out, records) ==
    IF Len(records) > 0
    THEN SetOutput(SetOutput(SetOutput(out, "hasConflicts", "true"),
                             "conflictCount", Len(records)),
                   "conflicts", JSONStringify(records))
    ELSE SetOutput(SetOutput(out, "hasConflicts", "false"), "conflictCount", 0)

\* faulty variant: the failure reason is a fixed text
CatchRunGeneric(log, error) ==
    IF error.isError THEN Append(log, <<"Action", "failed">>) ELSE log

\* the outer catch: if (error instanceof Error) core.setFailed(error.message)
CatchRun(log, error) ==
    IF error.isError THEN Append(log, error.message) ELSE log

\* the catch around postConflictComment (main.ts 89-97)
CatchPost(log, error) ==
    IF error.isError
    THEN IF Includes(error.message, NotAccessible)
         THEN Append(log, PermissionWarning)
         ELSE Append(log, <<"Failed", "to", "post", "comment:">> \o error.message)
    ELSE log

(***************************************************************************)
(* What the upstream can answer                                            *)
(***************************************************************************)
\* pages shorter than per_page
ShortPages ==
    { <<>>,
      <<File("a.ts", "modified")>>,
      <<File("b.ts", "added")>>,
      <<File("b.ts", "removed"), File("a.ts", "modified")>> }

\* pages of exactly per_page items (the upstream never returns more than
\* the per_page it was asked for)
FullPages == { [k \in 1..perPage |-> File("a.ts", "modified")] }

PagesAvailable ==
    ShortPages \cup (IF fullPagesServed < MaxFullPages THEN FullPages ELSE {})

ListedNumbers == {1, 2, 3}

TitleOf(n) ==
    IF n = 1 THEN "Current PR" ELSE "Conflicting PR " \o ToString(n)

PullRequests ==
    {[number |-> n, draft |-> d, title |-> TitleOf(n)] : n \in ListedNumbers, d \in BOOLEAN}

\* an open-PR listing names each PR once
Listings ==
    {l \in UNION {[1..n -> PullRequests] : n \in 0..MaxListed} :
        \A j, k \in DOMAIN l : j # k => l[j].number # l[k].number}

Payloads == {<<>>, <<[number |-> 1]>>}

currentPR == pull_request[1]

\* the PR the active getPRFiles call is for
FetchTarget == IF i = 0 THEN currentPR.number ELSE prs[i].number

(***************************************************************************)
(* run(), one action per stretch of code between awaits                    *)
(***************************************************************************)
Init ==
    /\ pc = "start"
    /\ token \in {"", "fake-token"}
    /\ includeDrafts \in BOOLEAN
    /\ postComments \in BOOLEAN
    /\ pull_request \in Payloads
    /\ currentPRChangedFiles = <<>>
    /\ prs = <<>>
    /\ i = 0
    /\ files = <<>>
    /\ page = 0
    /\ otherPRChangedFiles = <<>>
    /\ conflictingFiles = <<>>
    /\ conflictWarnings = <<>>
    /\ outputs = NoOutputs
    /\ failed = <<>>
    /\ warnings = <<>>
    /\ summaryWritten = FALSE
    /\ requests = <<>>
    /\ received = <<>>
    /\ thrown = <<>>
    /\ fullPagesServed = 0
    /\ upstream = <<>>
    /\ twin = <<>>

\* getPRFiles up to its first await: files = [], page = 1, request page 1
BeginGetPRFiles(prNumber) ==
    /\ files' = <<>>
    /\ page' = 1
    /\ received' = <<>>
    /\ requests' = Append(requests, ListFilesRequest(prNumber, 1))
    /\ pc' = "listFiles"

\* faulty variant: the `return` after setFailed is missing, so currentPR.number is
\* read from undefined and the TypeError reaches the outer catch
StartNoReturn ==
    /\ pc = "start"
    /\ IF token = ""
       THEN /\ failed' = CatchRun(failed, Error(InputRequiredMessage))
            /\ pc' = "done"
            /\ UNCHANGED <<files, page, received, requests>>
       ELSE IF pull_request = <<>>
       THEN /\ failed' = CatchRun(Append(failed, TriggerMessage),
                                  Error(<<"Cannot", "read", "properties", "of", "undefined">>))
            /\ pc' = "done"
            /\ UNCHANGED <<files, page, received, requests>>
       ELSE /\ BeginGetPRFiles(currentPR.number)
            /\ UNCHANGED failed
    /\ UNCHANGED <<token, includeDrafts, postComments, pull_request, currentPRChangedFiles,
                   prs, i, otherPRChangedFiles, conflictingFiles, conflictWarnings, outputs,
                   warnings, summaryWritten, thrown, fullPagesServed, upstream, twin>>

\* lines 23-42: read the inputs (a required input that is missing throws),
\* check the payload, call getPRFiles for the current PR
Start ==
    /\ pc = "start"
    /\ IF token = ""
       THEN /\ failed' = CatchRun(failed, Error(InputRequiredMessage))
            /\ pc' = "done"
            /\ UNCHANGED <<files, page, received, requests>>
       ELSE IF pull_request = <<>>
       THEN /\ failed' = Append(failed, TriggerMessage)
            /\ pc' = "done"
            /\ UNCHANGED <<files, page, received, requests>>
       ELSE /\ BeginGetPRFiles(currentPR.number)
            /\ UNCHANGED failed
    /\ UNCHANGED <<token, includeDrafts, postComments, pull_request, currentPRChangedFiles,
                   prs, i, otherPRChangedFiles, conflictingFiles, conflictWarnings, outputs,
                   warnings, summaryWritten, thrown, fullPagesServed, upstream, twin>>

\* lines 117-137, one turn of the while loop from the resolved await on; on
\* the last page getPRFiles returns, to line 42-50 (which requests the
\* listing) or to line 63
ListFilesResolves ==
    /\ pc = "listFiles"
    /\ \E data \in PagesAvailable :
        LET pushed == PushFiles(files, data) IN
        /\ received' = Append(received, data)
        /\ fullPagesServed' = fullPagesServed + (IF Len(data) = perPage THEN 1 ELSE 0)
        /\ IF PageIsLast(data)
           THEN /\ files' = <<>>
                /\ page' = 0
                /\ IF i = 0
                   THEN /\ currentPRChangedFiles' = pushed
                        /\ requests' = Append(requests,
                               [op |-> "list", pull_number |-> 0, per_page |-> 100, page |-> 0])
                        /\ pc' = "list"
                        /\ UNCHANGED otherPRChangedFiles
                   ELSE /\ otherPRChangedFiles' = pushed
                        /\ pc' = "detect"
                        /\ UNCHANGED <<currentPRChangedFiles, requests>>
           ELSE /\ files' = pushed
                /\ page' = NextPage(page)
                /\ requests' = Append(requests, ListFilesRequest(FetchTarget, page'))
                /\ UNCHANGED <<pc, currentPRChangedFiles, otherPRChangedFiles>>
    /\ UNCHANGED <<token, includeDrafts, postComments, pull_request, prs, i, conflictingFiles,
                   conflictWarnings, outputs, failed, warnings, summaryWritten, thrown,
                   upstream, twin>>

\* a rejected await of run() outside the posting step: lines 106-108
Rejected(error) ==
    /\ thrown' = Append(thrown, [error |-> error, request |-> Len(requests)])
    /\ failed' = CatchRun(failed, error)
    /\ pc' = "done"
    /\ UNCHANGED <<token, includeDrafts, postComments, pull_request, currentPRChangedFiles,
                   prs, i, files, page, otherPRChangedFiles, conflictingFiles,
                   conflictWarnings, outputs, warnings, summaryWritten, requests, received,
                   fullPagesServed, upstream, twin>>

ListFilesRejects ==
    /\ pc = "listFiles"
    /\ \E error \in Throwables : Rejected(error)

\* lines 45-52: the listing arrives
ListResolves ==
    /\ pc = "list"
    /\ \E listing \in Listings : prs' = listing
    /\ conflictWarnings' = <<>>
    /\ i' = 1
    /\ received' = <<>>
    /\ pc' = "loop"
    /\ UNCHANGED <<token, includeDrafts, postComments, pull_request, currentPRChangedFiles,
                   files, page, otherPRChangedFiles, conflictingFiles, outputs, failed,
                   warnings, summaryWritten, requests, thrown, fullPagesServed, upstream,
                   twin>>

ListRejects ==
    /\ pc = "list"
    /\ \E error \in Throwables : Rejected(error)

\* lines 54-61: a candidate that is skipped
LoopSkips ==
    /\ pc = "loop"
    /\ i <= Len(prs)
    /\ CandidateSkipped(prs[i], currentPR, includeDrafts)
    /\ i' = i + 1
    /\ UNCHANGED <<pc, token, includeDrafts, postComments, pull_request,
                   currentPRChangedFiles, prs, files, page, otherPRChangedFiles,
                   conflictingFiles, conflictWarnings, outputs, failed, warnings,
                   summaryWritten, requests, received, thrown, fullPagesServed, upstream,
                   twin>>

\* lines 54-63: a candidate that is fetched
LoopFetches ==
    /\ pc = "loop"
    /\ i <= Len(prs)
    /\ ~CandidateSkipped(prs[i], currentPR, includeDrafts)
    /\ BeginGetPRFiles(prs[i].number)
    /\ UNCHANGED <<token, includeDrafts, postComments, pull_request, currentPRChangedFiles,
                   prs, i, otherPRChangedFiles, conflictingFiles, conflictWarnings, outputs,
                   failed, warnings, summaryWritten, thrown, fullPagesServed, upstream,
                   twin>>

\* line 65
Detect ==
    /\ pc = "detect"
    /\ conflictingFiles' = findConflictingFiles(currentPRChangedFiles, otherPRChangedFiles)
    /\ pc' = "record"
    /\ UNCHANGED <<token, includeDrafts, postComments, pull_request, currentPRChangedFiles,
                   prs, i, files, page, otherPRChangedFiles, conflictWarnings, outputs,
                   failed, warnings, summaryWritten, requests, received, thrown,
                   fullPagesServed, upstream, twin>>

\* lines 67-68: the warning, emitted before the record is pushed
Warn ==
    /\ pc = "record"
    /\ warnings' = WarnConflict(warnings, prs[i], conflictingFiles)
    /\ pc' = "push"
    /\ UNCHANGED <<token, includeDrafts, postComments, pull_request, currentPRChangedFiles,
                   prs, i, files, page, otherPRChangedFiles, conflictingFiles,
                   conflictWarnings, outputs, failed, summaryWritten, requests, received,
                   thrown, fullPagesServed, upstream, twin>>

\* lines 70-76: the record, end of the loop body (its locals die)
Record ==
    /\ pc = "push"
    /\ conflictWarnings' = RecordConflict(conflictWarnings, prs[i], conflictingFiles)
    /\ otherPRChangedFiles' = <<>>
    /\ conflictingFiles' = <<>>
    /\ received' = <<>>
    /\ i' = i + 1
    /\ pc' = "loop"
    /\ UNCHANGED <<token, includeDrafts, postComments, pull_request, currentPRChangedFiles,
                   prs, files, page, outputs, failed, warnings, summaryWritten, requests,
                   thrown, fullPagesServed, upstream, twin>>

\* lines 78-105 up to the await of the posting, or to the end
Report ==
    /\ pc = "loop"
    /\ i > Len(prs)
    /\ outputs' = ReportOutputs(outputs, conflictWarnings)
    /\ summaryWritten' = (Len(conflictWarnings) > 0)
    /\ IF Len(conflictWarnings) > 0 /\ postComments
       THEN /\ requests' = Append(requests,
                   [op |-> "createComment", pull_number |-> currentPR.number,
                    per_page |-> 0, page |-> 0])
            /\ pc' = "createComment"
       ELSE /\ pc' = "done"
            /\ UNCHANGED requests
    /\ UNCHANGED <<token, includeDrafts, postComments, pull_request, currentPRChangedFiles,
                   prs, i, files, page, otherPRChangedFiles, conflictingFiles,
                   conflictWarnings, failed, warnings, received, thrown, fullPagesServed,
                   upstream, twin>>

\* lines 88, 100: the comment is posted
CreateCommentResolves ==
    /\ pc = "createComment"
    /\ pc' = "done"
    /\ UNCHANGED <<token, includeDrafts, postComments, pull_request, currentPRChangedFiles,
                   prs, i, files, page, otherPRChangedFiles, conflictingFiles,
                   conflictWarnings, outputs, failed, warnings, summaryWritten, requests,
                   received, thrown, fullPagesServed, upstream, twin>>

\* faulty variant: no try/catch around the posting, its failure reaches the outer catch
CreateCommentPropagates ==
    /\ pc = "createComment"
    /\ \E error \in Throwables : Rejected(error)

\* lines 89-100: the posting fails
CreateCommentRejects ==
    /\ pc = "createComment"
    /\ \E error \in Throwables :
        /\ thrown' = Append(thrown, [error |-> error, request |-> Len(requests)])
        /\ warnings' = CatchPost(warnings, error)
    /\ pc' = "done"
    /\ UNCHANGED <<token, includeDrafts, postComments, pull_request, currentPRChangedFiles,
                   prs, i, files, page, otherPRChangedFiles, conflictingFiles,
                   conflictWarnings, outputs, failed, summaryWritten, requests, received,
                   fullPagesServed, upstream, twin>>

Next ==
    \/ Start
    \/ ListFilesResolves
    \/ ListFilesRejects
    \/ ListResolves
    \/ ListRejects
    \/ LoopSkips
    \/ LoopFetches
    \/ Detect
    \/ Warn
    \/ Record
    \/ Report
    \/ CreateCommentResolves
    \/ CreateCommentRejects

Spec == Init /\ [][Next]_vars

(***************************************************************************)
(* findConflictingFiles on its own: the inputs are drawn, the loop body    *)
(* of run() (lines 65-76) applies it.                                      *)
(***************************************************************************)
DetStatuses == {"modified", "removed", "added", "renamed"}

DetFiles == [filename : FileNames, status : DetStatuses]

DetLists == UNION {[1..n -> DetFiles] : n \in 0..DetMaxLen}

DetectInit ==
    /\ pc = "detect"
    /\ token = "fake-token"
    /\ includeDrafts = FALSE
    /\ postComments = FALSE
    /\ pull_request = <<[number |-> 1]>>
    /\ currentPRChangedFiles \in DetLists
    /\ otherPRChangedFiles \in DetLists
    /\ prs = <<[number |-> 2, draft |-> FALSE, title |-> TitleOf(2)]>>
    /\ i = 1
    /\ files = <<>>
    /\ page = 0
    /\ conflictingFiles = <<>>
    /\ conflictWarnings = <<>>
    /\ outputs = NoOutputs
    /\ failed = <<>>
    /\ warnings = <<>>
    /\ summaryWritten = FALSE
    /\ requests = <<>>
    /\ received = <<>>
    /\ thrown = <<>>
    /\ fullPagesServed = 0
    /\ upstream = <<>>
    /\ twin = <<>>

DetectNext ==
    \/ Detect
    \/ Warn
    \/ Record

DetectSpec == DetectInit /\ [][DetectNext]_vars

(***************************************************************************)
(* C1                                                                      *)
(***************************************************************************)
\* the entries of B the claim selects: modified or removed in B, and their
\* filename modified or removed somewhere in A
SharedAt(A, B, k) ==
    /\ B[k].status \in {"modified", "removed"}
    /\ \E j \in DOMAIN A :
        A[j].filename = B[k].filename /\ A[j].status \in {"modified", "removed"}

\* C1: findConflictingFiles(A, B) is the filenames of exactly the entries of
\* B that are modified or removed and whose filename is modified or removed
\* in A, in B's order, duplicates kept: the n-th selected entry of B is the
\* n-th element of the result, and there are no other elements.  So the
\* result is empty when A or B is empty or nothing is shared.
C1_DetectIsOrderedFilter ==
    pc = "record" =>
        LET A == currentPRChangedFiles
            B == otherPRChangedFiles
            R == conflictingFiles
            selected == {k \in DOMAIN B : SharedAt(A, B, k)}
            Rank(k) == Cardinality({m \in selected : m <= k})
        IN  /\ Len(R) = Cardinality(selected)
            /\ \A k \in selected : R[Rank(k)] = B[k].filename
            /\ (A = <<>> \/ B = <<>> \/ selected = {}) => R = <<>>

\* a file removed in A and removed twice in B is reported twice, and the
\* file A only added is not reported although B modified it
C1_Witness ==
    /\ pc = "record"
    /\ currentPRChangedFiles = <<File("a.ts", "added"), File("b.ts", "removed")>>
    /\ otherPRChangedFiles = <<File("b.ts", "removed"), File("b.ts", "modified")>>
    /\ conflictingFiles = <<"b.ts", "b.ts">>

(***************************************************************************)
(* Vocabulary of the claims about run()                                    *)
(***************************************************************************)
\* request k was issued inside the candidate loop: after the listing request
InLoop(k) == \E l \in DOMAIN requests : l < k /\ requests[l].op = "list"

\* the rejection answered a createComment request
OfPosting(t) == requests[t.request].op = "createComment"

\* run() reached the end of its try block
Completed ==
    /\ pc = "done"
    /\ failed = <<>>
    /\ \A k \in DOMAIN thrown : OfPosting(thrown[k])

RECURSIVE Flatten(_)
Flatten(pages) ==
    IF pages = <<>> THEN <<>> ELSE Head(pages) \o Flatten(Tail(pages))

(***************************************************************************)
(* C2                                                                      *)
(***************************************************************************)
\* C2: a listed candidate that is the current PR, or a draft while
\* include-drafts is false, gets no listFiles request inside the loop and no
\* ConflictWarning; any other candidate the loop has reached (a draft with
\* include-drafts true included) has had its page 1 requested.
C2_SkippedNeverFetched ==
    \A j \in DOMAIN prs :
        LET pr == prs[j]
            fetches == {k \in DOMAIN requests :
                            /\ InLoop(k)
                            /\ requests[k].op = "listFiles"
                            /\ requests[k].pull_number = pr.number}
            records == {k \in DOMAIN conflictWarnings :
                            conflictWarnings[k].prNumber = pr.number}
        IN  IF pr.number = pull_request[1].number \/ (pr.draft /\ ~includeDrafts)
            THEN fetches = {} /\ records = {}
            ELSE (j < i \/ (j = i /\ pc # "loop")) =>
                    \E k \in fetches : requests[k].page = 1

\* a run without include-drafts ends having skipped the draft PR 2 and
\* recorded PR 3 after it
C2_Witness ==
    /\ pc = "done"
    /\ ~includeDrafts
    /\ Len(prs) = 2
    /\ prs[1].number = 2 /\ prs[1].draft
    /\ prs[2].number = 3 /\ ~prs[2].draft
    /\ Len(conflictWarnings) = 1
    /\ conflictWarnings[1].prNumber = 3
    /\ Len(requests) = 3

(***************************************************************************)
(* C3                                                                      *)
(***************************************************************************)
\* C3: at the end of a completed run has-conflicts is "true" if records were
\* collected and "false" if none, conflict-count is the number of records,
\* and conflicts is set iff there are records.
C3_OutputsAgree ==
    Completed =>
        /\ outputs.conflictCount = <<Len(conflictWarnings)>>
        /\ outputs.hasConflicts = <<IF Len(conflictWarnings) > 0 THEN "true" ELSE "false">>
        /\ (outputs.conflicts # <<>>) <=> (Len(conflictWarnings) > 0)

C3_Witness ==
    /\ Completed
    /\ Len(conflictWarnings) = 0
    /\ Len(prs) = 2
    /\ Len(requests) = 3
    /\ outputs.hasConflicts = <<"false">>

(***************************************************************************)
(* C4                                                                      *)
(***************************************************************************)
\* C4: when a listFiles or list request is rejected, the run is over with no
\* request after the rejected one (so no retry), no output set, and, the
\* value thrown being an Error, setFailed called once with its message.
C4_FetchErrorAborts ==
    \A k \in DOMAIN thrown :
        ~OfPosting(thrown[k]) =>
            /\ pc = "done"
            /\ thrown[k].request = Len(requests)
            /\ Len(thrown) = 1
            /\ outputs = NoOutputs
            /\ ~summaryWritten
            /\ thrown[k].error.isError => failed = <<thrown[k].error.message>>

\* the second candidate's fetch is rejected after the first one yielded a conflict
C4_Witness ==
    /\ pc = "done"
    /\ Len(thrown) = 1
    /\ thrown[1].error = Error(<<"API", "rate", "limit", "exceeded">>)
    /\ requests[thrown[1].request].op = "listFiles"
    /\ i = 2
    /\ Len(conflictWarnings) = 1
    /\ failed = <<(<<"API", "rate", "limit", "exceeded">>)>>

(***************************************************************************)
(* C5                                                                      *)
(***************************************************************************)
\* C5: while the comment is being posted the three outputs are already set,
\* and after the posting has failed, with whatever value, they have the same
\* values, setFailed has not been called and the run is over.
C5_PostFailureNotFatal ==
    LET outputsSet ==
            /\ outputs.hasConflicts = <<"true">>
            /\ outputs.conflictCount = <<Len(conflictWarnings)>>
            /\ Len(outputs.conflicts) = 1
    IN  /\ pc = "createComment" => postComments /\ outputsSet /\ failed = <<>>
        /\ \A k \in DOMAIN thrown :
               OfPosting(thrown[k]) =>
                   /\ postComments
                   /\ pc = "done"
                   /\ failed = <<>>
                   /\ outputsSet

C5_Witness ==
    /\ pc = "done"
    /\ Len(thrown) = 1
    /\ OfPosting(thrown[1])
    /\ thrown[1].error.isError
    /\ failed = <<>>
    /\ outputs.hasConflicts = <<"true">>

(***************************************************************************)
(* C6                                                                      *)
(***************************************************************************)
\* C6 as stated: without a pull-request payload the run fails at once with
\* the fixed message, no request made and no output set.
C6_NoPayloadFails ==
    pull_request = <<>> =>
        /\ pc \in {"start", "done"}
        /\ requests = <<>>
        /\ outputs = NoOutputs
        /\ pc = "start" => failed = <<>>
        /\ pc = "done" =>
               failed = <<(<<"This", "action", "must", "be", "triggered", "by", "a",
                             "pull_request", "event">>)>>

\* C6 amended: the same, for a run whose inputs could be read (github_token
\* supplied); without the token the run fails on the missing input before
\* it looks at the payload.
C6_NoPayloadFailsGivenToken ==
    (token # "" /\ pull_request = <<>>) =>
        /\ pc \in {"start", "done"}
        /\ requests = <<>>
        /\ outputs = NoOutputs
        /\ pc = "start" => failed = <<>>
        /\ pc = "done" =>
               failed = <<(<<"This", "action", "must", "be", "triggered", "by", "a",
                             "pull_request", "event">>)>>

C6_Witness ==
    /\ token # ""
    /\ pull_request = <<>>
    /\ pc = "done"
    /\ Len(failed) = 1

(***************************************************************************)
(* C7                                                                      *)
(***************************************************************************)
\* the last n requests are listFiles for PR prNumber, pages 1..n in order
LastRequestsArePages(log, prNumber, n) ==
    /\ Len(log) >= n
    /\ \A p \in 1..n :
        log[Len(log) - n + p] =
            [op |-> "listFiles", pull_number |-> prNumber, per_page |-> 100, page |-> p]

\* C7: getPRFiles asks for pages 1, 2, 3, ... in order; it has asked for
\* page k+1 exactly when page k came back with 100 items; it returns after
\* the first shorter page, and what it returns is the received pages
\* concatenated in order, nothing dropped.
C7_Pagination ==
    LET n == Len(received)
        AllFull(m) == \A k \in 1..m : Len(received[k]) = 100
    IN  /\ pc = "listFiles" =>
            /\ page = n + 1
            /\ AllFull(n)
            /\ files = Flatten(received)
            /\ LastRequestsArePages(requests, FetchTarget, n + 1)
        /\ pc = "list" =>
            /\ n >= 1
            /\ AllFull(n - 1)
            /\ Len(received[n]) < 100
            /\ currentPRChangedFiles = Flatten(received)
            /\ Len(requests) = n + 1
            /\ LastRequestsArePages(SubSeq(requests, 1, n), pull_request[1].number, n)
        /\ pc = "detect" =>
            /\ n >= 1
            /\ AllFull(n - 1)
            /\ Len(received[n]) < 100
            /\ otherPRChangedFiles = Flatten(received)
            /\ LastRequestsArePages(requests, prs[i].number, n)
            /\ requests[Len(requests) - n].op = "list"
               \/ requests[Len(requests) - n].pull_number # prs[i].number

\* a first page of exactly 100 items was followed by a second request, and
\* the 102 files of both pages are returned
C7_Witness ==
    /\ pc = "list"
    /\ Len(received) = 2
    /\ Len(received[1]) = 100
    /\ Len(received[2]) = 2
    /\ Len(currentPRChangedFiles) = 102
    /\ currentPRChangedFiles[101] = File("b.ts", "removed")

(***************************************************************************)
(* C9                                                                      *)
(***************************************************************************)
\* C9: a failed posting leaves exactly one warning after those of the loop
\* (one per record): it names the "pull-requests: write" permission when the
\* message of the failure contains "Resource not accessible by integration",
\* and contains the message of the failure otherwise.
C9_OneWarningPerPostFailure ==
    \A k \in DOMAIN thrown :
        OfPosting(thrown[k]) =>
            LET error == thrown[k].error
                after == SubSeq(warnings, Len(conflictWarnings) + 1, Len(warnings))
            IN  /\ Len(after) = 1
                /\ IF Includes(error.message, NotAccessible)
                   THEN Includes(after[1], RequiredPermission)
                   ELSE Includes(after[1], error.message)

(***************************************************************************)
(* C10                                                                     *)
(***************************************************************************)
FailedOutcome == failed # <<>> /\ outputs.hasConflicts = <<>>

CompletedOutcome == outputs.hasConflicts \in {<<"true">>, <<"false">>} /\ failed = <<>>

\* C10: a run that has ended has ended failed or completed, one of the two
\* and not both, whatever the upstream returned or threw.
C10_EndsFailedOrCompleted ==
    pc = "done" =>
        \/ FailedOutcome /\ ~CompletedOutcome
        \/ CompletedOutcome /\ ~FailedOutcome

(***************************************************************************)
(* Two runs side by side, on the same current PR, listing and per-PR file  *)
(* lists, one with include-drafts false and one with it true: the loop of  *)
(* run() (lines 54-76) taken by both at once.  The upstream holds one file *)
(* list per PR and serves it in pages of per_page.                         *)
(***************************************************************************)
PageOf(all, p) ==
    SubSeq(all, (p - 1) * perPage + 1, IF p * perPage < Len(all) THEN p * perPage ELSE Len(all))

\* getPRFiles (lines 111-139) against that upstream
RECURSIVE GetPRFilesLoop(_, _, _)
GetPRFilesLoop(all, acc, p) ==
    LET data == PageOf(all, p)
        pushed == PushFiles(acc, data)
    IN  IF PageIsLast(data) THEN pushed ELSE GetPRFilesLoop(all, pushed, NextPage(p))

getPRFiles(all) == GetPRFilesLoop(all, <<>>, 1)

TwinLists ==
    ShortPages \cup {full \o <<File("b.ts", "removed")>> : full \in FullPages}

TwinInit ==
    /\ pc = "twin"
    /\ token = "fake-token"
    /\ includeDrafts = FALSE
    /\ postComments = FALSE
    /\ pull_request = <<[number |-> 1]>>
    /\ upstream \in [ListedNumbers -> TwinLists]
    /\ currentPRChangedFiles = getPRFiles(upstream[1])
    /\ prs \in Listings
    /\ i = 1
    /\ twin = [drafts \in BOOLEAN |-> <<>>]
    /\ files = <<>>
    /\ page = 0
    /\ otherPRChangedFiles = <<>>
    /\ conflictingFiles = <<>>
    /\ conflictWarnings = <<>>
    /\ outputs = NoOutputs
    /\ failed = <<>>
    /\ warnings = <<>>
    /\ summaryWritten = FALSE
    /\ requests = <<>>
    /\ received = <<>>
    /\ thrown = <<>>
    /\ fullPagesServed = 0

\* one turn of the for loop, in both runs
TwinStep ==
    /\ pc = "twin"
    /\ i <= Len(prs)
    /\ twin' = [drafts \in BOOLEAN |->
                    IF CandidateSkipped(prs[i], currentPR, drafts)
                    THEN twin[drafts]
                    ELSE RecordConflict(twin[drafts], prs[i],
                             findConflictingFiles(currentPRChangedFiles,
                                                  getPRFiles(upstream[prs[i].number])))]
    /\ i' = i + 1
    /\ UNCHANGED <<pc, token, includeDrafts, postComments, pull_request,
                   currentPRChangedFiles, prs, files, page, otherPRChangedFiles,
                   conflictingFiles, conflictWarnings, outputs, failed, warnings,
                   summaryWritten, requests, received, thrown, fullPagesServed, upstream>>

\* the loop is over in both runs
TwinEnd ==
    /\ pc = "twin"
    /\ i > Len(prs)
    /\ pc' = "twinDone"
    /\ UNCHANGED <<token, includeDrafts, postComments, pull_request, currentPRChangedFiles,
                   prs, i, files, page, otherPRChangedFiles, conflictingFiles,
                   conflictWarnings, outputs, failed, warnings, summaryWritten, requests,
                   received, thrown, fullPagesServed, upstream, twin>>

TwinNext ==
    \/ TwinStep
    \/ TwinEnd

TwinSpec == TwinInit /\ [][TwinNext]_vars

(***************************************************************************)
(* C8                                                                      *)
(***************************************************************************)
RECURSIVE IsSubsequence(_, _)
IsSubsequence(s, t) ==
    IF s = <<>> THEN TRUE
    ELSE IF t = <<>> THEN FALSE
    ELSE IF Head(s) = Head(t) THEN IsSubsequence(Tail(s), Tail(t))
    ELSE IsSubsequence(s, Tail(t))

\* C8: the records of the run with include-drafts false are, unchanged and
\* in the same order, among the records of the run with include-drafts true.
C8_IncludeDraftsOnlyAdds == IsSubsequence(twin[FALSE], twin[TRUE])

\* the draft PR listed first is recorded only with include-drafts, before
\* the record both runs have
C8_Witness ==
    /\ pc = "twinDone"
    /\ i = 3
    /\ Len(prs) = 2
    /\ prs[1].draft /\ ~prs[2].draft
    /\ Len(twin[FALSE]) = 1
    /\ Len(twin[TRUE]) = 2
    /\ twin[TRUE][1].prNumber = prs[1].number
    /\ twin[TRUE][2] = twin[FALSE][1]

(***************************************************************************)
(* C11                                                                     *)
(***************************************************************************)
\* position in the listing of the PR with this number
ListedAt(number) == CHOOSE j \in DOMAIN prs : prs[j].number = number

\* the candidate at j is one the loop fetches
Fetched(j) ==
    /\ prs[j].number # pull_request[1].number
    /\ ~(prs[j].draft /\ ~includeDrafts)

\* the warning of the loop for a record
WarningOf(number, count) ==
    <<"PR", "#" \o ToString(number), "may", "have", "conflicts:",
      ToString(count), "overlapping", "files">>

C11_State ==
    LET listings == {k \in DOMAIN requests : requests[k].op = "list"}
        inLoop == {k \in DOMAIN requests : InLoop(k) /\ requests[k].op = "listFiles"}
        firstPages == {k \in inLoop : requests[k].page = 1}
        reached == {j \in DOMAIN prs : Fetched(j) /\ (j < i \/ (j = i /\ pc # "loop"))}
        pending == pc = "push" /\ conflictingFiles # <<>>
    IN  \* one listing call
        /\ Cardinality(listings) <= 1
        \* candidates are fetched one at a time, in listing order
        /\ \A k \in inLoop : \E j \in reached : prs[j].number = requests[k].pull_number
        /\ \A k1, k2 \in inLoop :
               k1 < k2 => ListedAt(requests[k1].pull_number) <= ListedAt(requests[k2].pull_number)
        /\ Cardinality(firstPages) = Cardinality(reached)
        \* every record is of a fetched candidate already passed, with its
        \* number and title and a non-empty detect result, in listing order
        /\ \A k \in DOMAIN conflictWarnings :
               /\ \E j \in DOMAIN prs :
                      /\ j < i
                      /\ Fetched(j)
                      /\ conflictWarnings[k].prNumber = prs[j].number
                      /\ conflictWarnings[k].prTitle = prs[j].title
               /\ conflictWarnings[k].conflictingFiles # <<>>
        /\ \A k1, k2 \in DOMAIN conflictWarnings :
               k1 < k2 =>
                   ListedAt(conflictWarnings[k1].prNumber) < ListedAt(conflictWarnings[k2].prNumber)
        \* one warning per record, emitted before the record is pushed
        /\ Len(warnings) >= Len(conflictWarnings) + (IF pending THEN 1 ELSE 0)
        /\ \A k \in DOMAIN conflictWarnings :
               warnings[k] = WarningOf(conflictWarnings[k].prNumber,
                                       Len(conflictWarnings[k].conflictingFiles))
        /\ pending =>
               /\ Len(warnings) = Len(conflictWarnings) + 1
               /\ warnings[Len(warnings)] = WarningOf(prs[i].number, Len(conflictingFiles))
        /\ (pc \in {"listFiles", "list", "loop", "detect", "record"} \/ (pc = "push" /\ ~pending)) =>
               Len(warnings) = Len(conflictWarnings)
        \* the warnings of the loop are as many as conflict-count
        /\ Completed =>
               /\ i = Len(prs) + 1
               /\ outputs.conflictCount =
                      <<Cardinality({k \in DOMAIN warnings :
                                        /\ Len(warnings[k]) = 8
                                        /\ warnings[k][1] = "PR"
                                        /\ warnings[k][3] = "may"})>>

C11_Step ==
    \* a record appears only at the push of a non-empty detect result, and is
    \* that candidate's number, title and detect result
    /\ conflictWarnings' # conflictWarnings =>
           /\ pc = "push"
           /\ conflictingFiles # <<>>
           /\ conflictWarnings' =
                  Append(conflictWarnings,
                         [prNumber |-> prs[i].number, prTitle |-> prs[i].title,
                          conflictingFiles |-> conflictingFiles])
    \* and every non-empty detect result of a fetched candidate is recorded
    /\ (pc = "push" /\ conflictingFiles # <<>>) => Len(conflictWarnings') = Len(conflictWarnings) + 1
    /\ (pc = "record" /\ conflictingFiles # <<>>) => Len(warnings') = Len(warnings) + 1
    /\ (pc = "record" /\ conflictingFiles = <<>>) => warnings' = warnings
    \* the detect result is that of the candidate's files against the current PR's
    /\ pc = "detect" =>
           /\ Len(conflictingFiles') <= Len(otherPRChangedFiles)
           /\ \A k \in DOMAIN conflictingFiles' :
                  \E a \in DOMAIN currentPRChangedFiles, b \in DOMAIN otherPRChangedFiles :
                      /\ currentPRChangedFiles[a].filename = conflictingFiles'[k]
                      /\ otherPRChangedFiles[b].filename = conflictingFiles'[k]
    \* the loop goes through the listing in order, one candidate at a time
    /\ (pc \in {"loop", "listFiles", "detect", "record", "push"} /\ pc' # "done" /\ pc' # "createComment") =>
           /\ prs' = prs
           /\ i' \in {i, i + 1}
           /\ i' = i + 1 => pc \in {"loop", "push"}

\* C11: the candidates are taken one at a time in the order of the one
\* listing; the records are, in listing order, one per fetched candidate
\* whose detect result is non-empty (its number, title and that result) and
\* none for any other; each record has its warning "PR #n may have
\* conflicts: k overlapping files", emitted before the record is pushed, so
\* in a completed run these warnings are as many as conflict-count.
C11_RecordsFollowListing == [](C11_State) /\ [][C11_Step]_vars

\* PR 3 is listed before PR 2 and both conflict: two records and two
\* warnings, in that order
C11_Witness ==
    /\ Completed
    /\ Len(prs) = 2
    /\ prs[1].number = 3 /\ prs[2].number = 2
    /\ Len(conflictWarnings) = 2
    /\ conflictWarnings[1].prNumber = 3 /\ conflictWarnings[2].prNumber = 2
    /\ conflictWarnings[1].conflictingFiles = <<"b.ts", "a.ts">>
    /\ warnings = << WarningOf(3, 2), WarningOf(2, 1) >>
    /\ outputs.conflictCount = <<2>>

====
